---- MODULE Spec2Model ----
(***************************************************************************)
(* The account pool (AccountManager) and the rotating authenticator        *)
(* (TwitterPoolAuth) of src/src/search.ts as a state machine.              *)
(* The store operations of src/src/account-manager.ts are the AM_ part.    *)
(*                                                                         *)
(* JavaScript runs one task at a time and a task runs to its next await,   *)
(* so every action below is the code between two awaits.  A continuation   *)
(* that waits only for an already settled promise runs before any I/O or   *)
(* timer event: Runnable gives those continuations priority.               *)
(***************************************************************************)
EXTENDS Integers, Sequences, FiniteSets, TLC

VARIABLES
    accounts,               \* AccountState objects, by object identity
    db,                     \* this.db.data.accounts: the store, a list of objects
    activeAccounts,         \* this.activeAccounts: the objects of the active sessions
    roundRobinIndex,        \* this.roundRobinIndex
    initializationPromise,  \* this.initializationPromise: the latest _initializePool call
    warm,                   \* every _initializePool call: where it is suspended
    now,                    \* Date.now()
    fetch,                  \* the TwitterPoolAuth.fetch calls and their locals
    adminOps,               \* addAccounts, deleteAccount, resetFailedLogins calls so far
    disk,                   \* the accounts list as last written by this.db.write()
    login,                  \* a TwitterUserAuth.login call: its flow and its locals
    timeline,               \* a paginated listing: its driver's locals and its output
    parser,                 \* a parseAccountList call: its arguments and its result
    request                 \* a request to the downstream API and its answer

poolVars == <<accounts, db, activeAccounts, roundRobinIndex,
              initializationPromise, warm, now, fetch, adminOps, disk>>

otherVars == <<login, timeline, parser, request>>

vars == <<accounts, db, activeAccounts, roundRobinIndex,
          initializationPromise, warm, now, fetch, adminOps, disk,
          login, timeline, parser, request>>

----------------------------------------------------------------------------
(* Bounds *)

MaxWarmups == 2     \* _initializePool calls in one behaviour
MaxFetches == 1     \* fetch calls in one behaviour
MaxTicks == 1       \* clock advances
MaxObjs == 3        \* AccountState objects ever created
MaxAdminOps == 2    \* addAccounts, deleteAccount and resetFailedLogins calls

(* Program constants *)

poolSize == 5
WaitMs == 5000
FiveMinutes == 5 * 60 * 1000

Users == {"a", "b", "c"}
InitUsers == <<"a", "b">>           \* the store read by the constructor
NoTime == -1                        \* an optional timestamp that is undefined
NoHeader == -1                      \* response without x-rate-limit-reset
HeaderValues == {10}                \* x-rate-limit-reset, epoch seconds
NetworkError == 0                   \* telemetryFetch threw: no status
Statuses == {200, 429, 401, 403, 500}
StartTime == WaitMs
Fetches == 1..MaxFetches

Truthy(t) == t # NoTime /\ t # 0
Max(a, b) == IF a > b THEN a ELSE b

----------------------------------------------------------------------------
(* Lookups by username: Array.find / findIndex return the first match *)

RECURSIVE FindFrom(_, _, _, _)
FindFrom(s, accts, u, i) ==
    IF i > Len(s) THEN 0
    ELSE IF accts[s[i]].username = u THEN i
    ELSE FindFrom(s, accts, u, i + 1)

FindIndex(s, accts, u) == FindFrom(s, accts, u, 1)

\* what this.db.write() puts on disk: the list db.data.accounts
Stored(accts, dbv) == [i \in 1..Len(dbv) |-> accts[dbv[i]]]

\* the parts of the program that are not running
Idle == [pc |-> "idle"]

OthersIdle ==
    /\ login = Idle
    /\ timeline = Idle
    /\ parser = Idle
    /\ request = Idle

NewAccount(u, tok) ==
    [username |-> u, tokenState |-> "unknown", failedLogin |-> FALSE,
     lastUsed |-> NoTime, lastFailedAt |-> NoTime, rateLimitedUntil |-> NoTime,
     authToken |-> tok]

----------------------------------------------------------------------------
(* _initializePool *)

SortKey(accts, o) == IF accts[o].lastUsed = NoTime THEN 0 ELSE accts[o].lastUsed

RECURSIVE InsertSorted(_, _, _)
InsertSorted(accts, s, o) ==
    IF s = <<>> THEN <<o>>
    ELSE IF SortKey(accts, Head(s)) <= SortKey(accts, o)
         THEN <<Head(s)>> \o InsertSorted(accts, Tail(s), o)
         ELSE <<o>> \o s

RECURSIVE SortByLastUsed(_, _)
SortByLastUsed(accts, s) ==
    IF s = <<>> THEN <<>>
    ELSE InsertSorted(accts, SortByLastUsed(accts, SubSeq(s, 1, Len(s) - 1)), s[Len(s)])

CandidateAccounts(accts, dbv) ==
    SortByLastUsed(accts, SelectSeq(dbv, LAMBDA o : ~accts[o].failedLogin))

RateLimitedNow(accts, o, t) ==
    Truthy(accts[o].rateLimitedUntil) /\ accts[o].rateLimitedUntil > t

\* The head of the for loop, run from candidate i on: the index of the
\* candidate whose login is attempted next, 0 when the loop ends.
RECURSIVE NextCandidate(_, _, _, _, _)
NextCandidate(cands, i, accts, activeLen, t) ==
    IF i > Len(cands) THEN 0
    ELSE IF activeLen >= poolSize THEN 0
    ELSE IF accts[cands[i]].failedLogin \/ RateLimitedNow(accts, cands[i], t)
         THEN NextCandidate(cands, i + 1, accts, activeLen, t)
    ELSE i

WarmDone == [pc |-> "done", cands |-> <<>>, idx |-> 0, wakeAt |-> 0]

\* The call suspended at the first await of candidate j's login.
WarmAt(cands, j, accts) ==
    IF j = 0 THEN WarmDone
    ELSE [pc |-> IF accts[cands[j]].authToken THEN "tokenLogin" ELSE "login",
          cands |-> cands, idx |-> j, wakeAt |-> 0]

\* A call of _initializePool up to its first await.
StartInitializePool(accts, dbv) ==
    LET cands == CandidateAccounts(accts, dbv)
    IN  /\ Len(warm) < MaxWarmups
        /\ activeAccounts' = <<>>
        /\ warm' = Append(warm, WarmAt(cands, NextCandidate(cands, 1, accts, 0, now), accts))
        /\ initializationPromise' = Len(warm) + 1

InFlight(w) == warm[w].pc # "done"

\* A fetch whose awaited initialization has settled continues before
\* anything else happens, and so does a pending isLoggedIn call.
Runnable ==
    \/ \E f \in Fetches : fetch[f].pc = "wait" /\ warm[fetch[f].promise].pc = "done"
    \/ /\ timeline.pc \in {"requestApi", "notLoggedIn"}
       /\ timeline.isLoggedIn = "pending"
       /\ warm[timeline.promise].pc = "done"

LoggedIn(o) ==
    [accounts EXCEPT ![o] = [@ EXCEPT !.tokenState = "working",
                                      !.failedLogin = FALSE,
                                      !.authToken = TRUE,
                                      !.lastUsed = now]]

\* (a variant that leaves tokenState as it was)
LoginFailedTokenKept(o) ==
    [accounts EXCEPT ![o] = [@ EXCEPT !.failedLogin = TRUE, !.lastFailedAt = now]]

LoginFailed(o) ==
    [accounts EXCEPT ![o] = [@ EXCEPT !.tokenState = "failed",
                                      !.failedLogin = TRUE,
                                      !.lastFailedAt = now]]

\* The success block of a candidate and the loop on to the next await.
WarmSuccess(w) ==
    LET o == warm[w].cands[warm[w].idx]
        accts2 == LoggedIn(o)
        act2 == Append(activeAccounts, o)
    IN  /\ accounts' = accts2
        /\ activeAccounts' = act2
        /\ warm' = [warm EXCEPT ![w] =
                      WarmAt(warm[w].cands,
                             NextCandidate(warm[w].cands, warm[w].idx + 1, accts2, Len(act2), now),
                             accts2)]

\* scraper.loginWithToken / isLoggedIn answered
TokenLoginResult(w, ok) ==
    /\ ~Runnable
    /\ w \in 1..Len(warm)
    /\ warm[w].pc = "tokenLogin"
    /\ IF ok
       THEN WarmSuccess(w)
       ELSE /\ accounts' = [accounts EXCEPT ![warm[w].cands[warm[w].idx]] =
                               [@ EXCEPT !.tokenState = "failed", !.authToken = FALSE]]
            /\ warm' = [warm EXCEPT ![w].pc = "login"]
            /\ UNCHANGED activeAccounts
    /\ UNCHANGED <<db, roundRobinIndex, initializationPromise, now, fetch, adminOps>>
    /\ disk' = Stored(accounts', db')
    /\ UNCHANGED otherVars

\* scraper.login / isLoggedIn answered: logged in, failed, or failed with
\* an Arkose error (which waits before the next candidate)
LoginResult(w, res) ==
    /\ ~Runnable
    /\ w \in 1..Len(warm)
    /\ warm[w].pc = "login"
    /\ res \in {"ok", "fail", "arkose"}
    /\ LET o == warm[w].cands[warm[w].idx]
           accts2 == LoginFailed(o)
       IN CASE res = "ok" -> WarmSuccess(w)
            [] res = "fail" ->
                 /\ accounts' = accts2
                 /\ warm' = [warm EXCEPT ![w] =
                      WarmAt(warm[w].cands,
                             NextCandidate(warm[w].cands, warm[w].idx + 1, accts2,
                                           Len(activeAccounts), now),
                             accts2)]
                 /\ UNCHANGED activeAccounts
            [] res = "arkose" ->
                 /\ accounts' = accts2
                 /\ warm' = [warm EXCEPT ![w].pc = "arkose", ![w].wakeAt = now + WaitMs]
                 /\ UNCHANGED activeAccounts
    /\ UNCHANGED <<db, roundRobinIndex, initializationPromise, now, fetch, adminOps>>
    /\ disk' = Stored(accounts', db')
    /\ UNCHANGED otherVars

\* wait(5000) after an Arkose error is over
ArkoseWaitDone(w) ==
    /\ ~Runnable
    /\ w \in 1..Len(warm)
    /\ warm[w].pc = "arkose"
    /\ now >= warm[w].wakeAt
    /\ warm' = [warm EXCEPT ![w] =
                  WarmAt(warm[w].cands,
                         NextCandidate(warm[w].cands, warm[w].idx + 1, accounts,
                                       Len(activeAccounts), now),
                         accounts)]
    /\ UNCHANGED <<accounts, db, activeAccounts, roundRobinIndex,
                   initializationPromise, now, fetch, adminOps>>
    /\ UNCHANGED <<disk, otherVars>>

----------------------------------------------------------------------------
(* getNextAccount, after ensureInitialized has returned *)

\* (a variant that reads the comparison the wrong way round)
UsableReversed(accts, o, t) ==
    ~(Truthy(accts[o].rateLimitedUntil) /\ accts[o].rateLimitedUntil < t)

Usable(accts, o, t) == ~RateLimitedNow(accts, o, t)

\* (a variant that always scans from index 0)
RECURSIVE ScanFromZero(_, _, _, _, _)
ScanFromZero(act, accts, initialIndex, i, t) ==
    IF i >= Len(act) THEN -1
    ELSE IF Usable(accts, act[i + 1], t) THEN i
         ELSE ScanFromZero(act, accts, initialIndex, i + 1, t)

\* The for loop of getNextAccount: the (0-based) index of the first session
\* from roundRobinIndex on that is not rate-limited, -1 after a full turn.
RECURSIVE ScanFrom(_, _, _, _, _)
ScanFrom(act, accts, initialIndex, i, t) ==
    IF i >= Len(act) THEN -1
    ELSE LET currentIndex == (initialIndex + i) % Len(act)
         IN  IF Usable(accts, act[currentIndex + 1], t) THEN currentIndex
             ELSE ScanFrom(act, accts, initialIndex, i + 1, t)

NextIndex == 
    IF Len(activeAccounts) = 0 THEN -1
    ELSE ScanFrom(activeAccounts, accounts, roundRobinIndex, 0, now)

\* What getNextAccount writes when it returns the session at index k.
Provide(accts, o, t) ==
    [accts EXCEPT ![o] = [@ EXCEPT !.rateLimitedUntil = IF Truthy(@) THEN NoTime ELSE @,
                                   !.lastUsed = t]]

----------------------------------------------------------------------------
(* updateRateLimit, markFailed *)

\* (a variant that takes the header for milliseconds)
RateLimitUntilUnscaled(hdr, t) == IF hdr # NoHeader THEN hdr ELSE t + FiveMinutes

RateLimitUntil(hdr, t) == IF hdr # NoHeader THEN hdr * 1000 ELSE t + FiveMinutes

updateRateLimit(u, until) ==
    LET i == FindIndex(db, accounts, u)
    IN  /\ accounts' = IF i = 0 THEN accounts
                       ELSE [accounts EXCEPT ![db[i]].rateLimitedUntil = until]
        /\ IF i = 0 THEN UNCHANGED disk ELSE disk' = Stored(accounts', db)

markFailed(u) ==
    LET i == FindIndex(db, accounts, u)
        accts2 == [accounts EXCEPT ![db[i]] = [@ EXCEPT !.failedLogin = TRUE,
                                                        !.tokenState = "failed",
                                                        !.lastFailedAt = now]]
    IN  IF i = 0
        THEN UNCHANGED <<accounts, activeAccounts, warm, initializationPromise, disk>>
        ELSE /\ accounts' = accts2
             /\ disk' = Stored(accts2, db)
             /\ IF FindIndex(activeAccounts, accounts, u) = 0
                THEN UNCHANGED <<activeAccounts, warm, initializationPromise>>
                ELSE StartInitializePool(accts2, db)

----------------------------------------------------------------------------
(* TwitterPoolAuth.fetch *)

NoStatus == -1
Aborted == -2                       \* telemetryFetch rejected: init.signal was aborted

IdleFetch ==
    [pc |-> "idle", activePoolSize |-> 0, maxRetries |-> 0, attempt |-> 0,
     triedUsernames |-> {}, acct |-> 0, promise |-> 0, wakeAt |-> 0,
     status |-> NoStatus, resetHeader |-> NoHeader, deniedBody |-> FALSE,
     outcome |-> "none"]

\* (a variant that allows one attempt too many)
MaxRetriesOneMore(activePoolSize) == activePoolSize + 1

MaxRetries(activePoolSize) == Max(activePoolSize, 1)

\* the call is over: only the last response and the result are kept
Finish(r, e) ==
    [IdleFetch EXCEPT !.pc = "done", !.outcome = e, !.acct = r.acct,
                      !.status = r.status, !.resetHeader = r.resetHeader,
                      !.deniedBody = r.deniedBody]

Throw(r, e) == Finish(r, e)

\* (a variant whose continue does not count the attempt)
ContinueSameAttempt(r, p) ==
    IF r.attempt + 1 <= r.maxRetries
    THEN [r EXCEPT !.pc = "wait", !.promise = p]
    ELSE Throw(r, "exhausted")

\* "continue": the next turn of the for loop, up to the await in
\* ensureInitialized, or the throw after the loop.
Continue(r, p) ==
    IF r.attempt + 1 <= r.maxRetries
    THEN [r EXCEPT !.attempt = @ + 1, !.pc = "wait", !.promise = p]
    ELSE Throw(r, "exhausted")

\* (a variant that never finds a username among the tried ones)
AlreadyTriedNever(r, u) == FALSE

\* triedUsernames.has(username)
AlreadyTried(r, u) == u \in r.triedUsernames

\* fetch is called: it reads the pool size and awaits the initialization
FetchStart(f) ==
    /\ ~Runnable
    /\ fetch[f].pc = "idle"
    /\ fetch' = [fetch EXCEPT ![f] =
                   [IdleFetch EXCEPT !.pc = "wait",
                                     !.activePoolSize = Len(activeAccounts),
                                     !.maxRetries = MaxRetries(Len(activeAccounts)),
                                     !.attempt = 1,
                                     !.promise = initializationPromise]]
    /\ UNCHANGED <<accounts, db, activeAccounts, roundRobinIndex,
                   initializationPromise, warm, now, adminOps>>
    /\ UNCHANGED <<disk, otherVars>>

\* the awaited initialization has settled: ensureInitialized throws on an
\* empty pool, otherwise getNextAccount picks a session and fetch either
\* skips it (already tried) or issues the request on it
FetchDispatch(f) ==
    /\ fetch[f].pc = "wait"
    /\ warm[fetch[f].promise].pc = "done"
    /\ LET r == [fetch[f] EXCEPT !.status = NoStatus, !.resetHeader = NoHeader, !.acct = 0]
           k == NextIndex
           o == activeAccounts[k + 1]
           u == accounts[o].username
       IN  IF Len(activeAccounts) = 0
           THEN /\ fetch' = [fetch EXCEPT ![f] = Throw(r, "poolEmpty")]
                /\ UNCHANGED <<accounts, roundRobinIndex, disk>>
           ELSE IF k = -1
           THEN /\ fetch' = [fetch EXCEPT ![f] = [r EXCEPT !.pc = "sleep",
                                                           !.wakeAt = now + WaitMs]]
                /\ UNCHANGED <<accounts, roundRobinIndex, disk>>
           ELSE /\ accounts' = Provide(accounts, o, now)
                /\ IF Truthy(accounts[o].rateLimitedUntil)
                   THEN disk' = Stored([accounts EXCEPT ![o].rateLimitedUntil = NoTime], db)
                   ELSE UNCHANGED disk
                /\ roundRobinIndex' = (k + 1) % Len(activeAccounts)
                /\ fetch' = [fetch EXCEPT ![f] =
                     IF AlreadyTried(r, u)
                     THEN IF Cardinality(r.triedUsernames) >= r.activePoolSize
                          THEN Throw([r EXCEPT !.acct = o], "exhausted")
                          ELSE Continue([r EXCEPT !.acct = o], initializationPromise)
                     ELSE [r EXCEPT !.acct = o, !.pc = "req",
                                    !.triedUsernames = @ \cup {u}]]
    /\ UNCHANGED <<db, activeAccounts, initializationPromise, warm, now, adminOps>>
    /\ UNCHANGED otherVars

\* wait(5000) after getNextAccount returned null is over
FetchSleepDone(f) ==
    /\ ~Runnable
    /\ fetch[f].pc = "sleep"
    /\ now >= fetch[f].wakeAt
    /\ fetch' = [fetch EXCEPT ![f] = Continue(@, initializationPromise)]
    /\ UNCHANGED <<accounts, db, activeAccounts, roundRobinIndex,
                   initializationPromise, warm, now, adminOps>>
    /\ UNCHANGED <<disk, otherVars>>

\* response.ok
FetchOk(f) ==
    /\ ~Runnable
    /\ fetch[f].pc = "req"
    /\ fetch' = [fetch EXCEPT ![f] = Finish([@ EXCEPT !.status = 200], "returned")]
    /\ UNCHANGED <<accounts, db, activeAccounts, roundRobinIndex,
                   initializationPromise, warm, now, adminOps>>
    /\ UNCHANGED <<disk, otherVars>>

\* status 429
FetchRateLimited(f, hdr) ==
    /\ ~Runnable
    /\ fetch[f].pc = "req"
    /\ hdr \in HeaderValues \cup {NoHeader}
    /\ updateRateLimit(accounts[fetch[f].acct].username, RateLimitUntil(hdr, now))
    /\ fetch' = [fetch EXCEPT ![f] =
                   Continue([@ EXCEPT !.status = 429, !.resetHeader = hdr],
                            initializationPromise)]
    /\ UNCHANGED <<db, activeAccounts, roundRobinIndex, initializationPromise, warm, now, adminOps>>
    /\ UNCHANGED otherVars

\* (a variant that takes every status that is not ok and not 429 for an
\* authentication error)
AuthErrorsAndOthers == Statuses \ {200, 429}

\* response.status === 401 || response.status === 403
AuthErrors == {401, 403}

\* status 401 or 403
FetchAuthError(f, st) ==
    /\ ~Runnable
    /\ fetch[f].pc = "req"
    /\ st \in AuthErrors
    /\ markFailed(accounts[fetch[f].acct].username)
    /\ fetch' = [fetch EXCEPT ![f] = Continue([@ EXCEPT !.status = st],
                                              initializationPromise')]
    /\ UNCHANGED <<db, roundRobinIndex, now, adminOps>>
    /\ UNCHANGED otherVars

\* any other status that is not ok
FetchOtherStatus(f, st) ==
    /\ ~Runnable
    /\ fetch[f].pc = "req"
    /\ st \in Statuses \ ({200, 429} \cup AuthErrors)
    /\ fetch' = [fetch EXCEPT ![f] = Continue([@ EXCEPT !.status = st],
                                              initializationPromise)]
    /\ UNCHANGED <<accounts, db, activeAccounts, roundRobinIndex,
                   initializationPromise, warm, now, adminOps>>
    /\ UNCHANGED <<disk, otherVars>>

\* installTo or the transport threw
FetchNetworkError(f) ==
    /\ ~Runnable
    /\ fetch[f].pc = "req"
    /\ markFailed(accounts[fetch[f].acct].username)
    /\ fetch' = [fetch EXCEPT ![f] = Continue([@ EXCEPT !.status = NetworkError],
                                              initializationPromise')]
    /\ UNCHANGED <<db, roundRobinIndex, now, adminOps>>
    /\ UNCHANGED otherVars

----------------------------------------------------------------------------
(* addAccounts, deleteAccount, resetFailedLogins *)

Batches == {<<u>> : u \in Users} \cup {<<u, v>> : u \in Users, v \in Users}

\* the forEach of addAccounts over the batch from element i on: st is the
\* pair of the objects and the store so far
RECURSIVE AddEach(_, _, _, _)
AddEach(batch, tok, i, st) ==
    IF i > Len(batch) THEN st
    ELSE IF FindIndex(st.db, st.accounts, batch[i]) # 0
         THEN AddEach(batch, tok, i + 1, st)
         ELSE LET o == Len(st.accounts) + 1
              IN  AddEach(batch, tok, i + 1,
                          [accounts |-> Append(st.accounts, NewAccount(batch[i], tok)),
                           db |-> Append(st.db, o)])

addAccounts(batch, tok) ==
    /\ adminOps < MaxAdminOps
    /\ ~Runnable
    /\ batch \in Batches
    /\ LET st == AddEach(batch, tok, 1, [accounts |-> accounts, db |-> db])
       IN  /\ Len(st.accounts) <= MaxObjs
           /\ accounts' = st.accounts
           /\ db' = st.db
           /\ IF st.db # db
              THEN StartInitializePool(st.accounts, st.db)
              ELSE UNCHANGED <<activeAccounts, warm, initializationPromise>>
    /\ adminOps' = adminOps + 1
    /\ UNCHANGED <<roundRobinIndex, now, fetch>>
    /\ IF db' # db THEN disk' = Stored(accounts', db') ELSE UNCHANGED disk
    /\ UNCHANGED otherVars

deleteAccount(u) ==
    /\ adminOps < MaxAdminOps
    /\ ~Runnable
    /\ u \in Users
    /\ LET db2 == SelectSeq(db, LAMBDA o : accounts[o].username # u)
       IN  /\ db' = db2
           /\ IF Len(db2) # Len(db) /\ FindIndex(activeAccounts, accounts, u) # 0
              THEN StartInitializePool(accounts, db2)
              ELSE UNCHANGED <<activeAccounts, warm, initializationPromise>>
    /\ adminOps' = adminOps + 1
    /\ UNCHANGED <<accounts, roundRobinIndex, now, fetch>>
    /\ IF Len(db') # Len(db) THEN disk' = Stored(accounts', db') ELSE UNCHANGED disk
    /\ UNCHANGED otherVars

\* (a variant that clears failedLogin only)
ResetAccountsFailedOnly ==
    [o \in DOMAIN accounts |->
        IF \E i \in 1..Len(db) : db[i] = o
        THEN [accounts[o] EXCEPT !.failedLogin = FALSE]
        ELSE accounts[o]]

ResetAccounts ==
    [o \in DOMAIN accounts |->
        IF \E i \in 1..Len(db) : db[i] = o
        THEN [accounts[o] EXCEPT !.failedLogin = FALSE, !.tokenState = "unknown",
                                 !.lastFailedAt = NoTime, !.rateLimitedUntil = NoTime]
        ELSE accounts[o]]

resetFailedLogins ==
    /\ adminOps < MaxAdminOps
    /\ ~Runnable
    /\ accounts' = ResetAccounts
    /\ StartInitializePool(ResetAccounts, db)
    /\ adminOps' = adminOps + 1
    /\ UNCHANGED <<db, roundRobinIndex, now, fetch>>
    /\ disk' = Stored(accounts', db')
    /\ UNCHANGED otherVars

\* time passes
Tick ==
    /\ ~Runnable
    /\ now < StartTime + MaxTicks * WaitMs
    /\ now' = now + WaitMs
    /\ UNCHANGED <<accounts, db, activeAccounts, roundRobinIndex,
                   initializationPromise, warm, fetch, adminOps>>
    /\ UNCHANGED <<disk, otherVars>>

----------------------------------------------------------------------------

\* the constructor: the store as loaded, and the first _initializePool call
Init ==
    /\ accounts = [i \in 1..Len(InitUsers) |-> NewAccount(InitUsers[i], FALSE)]
    /\ db = [i \in 1..Len(InitUsers) |-> i]
    /\ activeAccounts = <<>>
    /\ roundRobinIndex = 0
    /\ initializationPromise = 1
    /\ warm = <<WarmAt(CandidateAccounts(accounts, db),
                       NextCandidate(CandidateAccounts(accounts, db), 1, accounts, 0, StartTime),
                       accounts)>>
    /\ now = StartTime
    /\ fetch = [f \in Fetches |-> IdleFetch]
    /\ adminOps = 0
    /\ disk = Stored(accounts, db)
    /\ OthersIdle

Next ==
    \/ \E w \in 1..MaxWarmups, ok \in BOOLEAN : TokenLoginResult(w, ok)
    \/ \E w \in 1..MaxWarmups, res \in {"ok", "fail", "arkose"} : LoginResult(w, res)
    \/ \E w \in 1..MaxWarmups : ArkoseWaitDone(w)
    \/ \E f \in Fetches : FetchStart(f)
    \/ \E f \in Fetches : FetchDispatch(f)
    \/ \E f \in Fetches : FetchSleepDone(f)
    \/ \E f \in Fetches : FetchOk(f)
    \/ \E f \in Fetches, hdr \in HeaderValues \cup {NoHeader} : FetchRateLimited(f, hdr)
    \/ \E f \in Fetches, st \in Statuses : FetchAuthError(f, st)
    \/ \E f \in Fetches, st \in Statuses : FetchOtherStatus(f, st)
    \/ \E f \in Fetches : FetchNetworkError(f)
    \/ \E batch \in Batches, tok \in BOOLEAN : addAccounts(batch, tok)
    \/ \E u \in Users : deleteAccount(u)
    \/ resetFailedLogins
    \/ Tick

Spec == Init /\ [][Next]_vars

----------------------------------------------------------------------------
(* The warm-up alone, on a store of three accounts, each with or without *)
(* a saved authToken: no fetch is issued                                 *)

WarmUsers == <<"a", "b", "c">>

InitWarm ==
    /\ \E toks \in [1..Len(WarmUsers) -> BOOLEAN] :
          accounts = [i \in 1..Len(WarmUsers) |-> NewAccount(WarmUsers[i], toks[i])]
    /\ db = [i \in 1..Len(WarmUsers) |-> i]
    /\ activeAccounts = <<>>
    /\ roundRobinIndex = 0
    /\ initializationPromise = 1
    /\ warm = <<WarmAt(CandidateAccounts(accounts, db),
                       NextCandidate(CandidateAccounts(accounts, db), 1, accounts, 0, StartTime),
                       accounts)>>
    /\ now = StartTime
    /\ fetch = [f \in Fetches |-> IdleFetch]
    /\ adminOps = 0
    /\ disk = Stored(accounts, db)
    /\ OthersIdle

NextWarm ==
    \/ \E w \in 1..MaxWarmups, ok \in BOOLEAN : TokenLoginResult(w, ok)
    \/ \E w \in 1..MaxWarmups, res \in {"ok", "fail", "arkose"} : LoginResult(w, res)
    \/ \E w \in 1..MaxWarmups : ArkoseWaitDone(w)
    \/ \E batch \in Batches, tok \in BOOLEAN : addAccounts(batch, tok)
    \/ \E u \in Users : deleteAccount(u)
    \/ resetFailedLogins
    \/ Tick

SpecWarm == InitWarm /\ [][NextWarm]_vars

----------------------------------------------------------------------------
(* The warm-up on a store that holds one account more than the pool      *)
(* takes: six accounts, none of them used before; the logins succeed or  *)
(* fail at once, and resetFailedLogins may start a second warm-up        *)

SixUsers == <<"a", "b", "c", "d", "e", "f">>

InitSix ==
    /\ accounts = [i \in 1..Len(SixUsers) |-> NewAccount(SixUsers[i], FALSE)]
    /\ db = [i \in 1..Len(SixUsers) |-> i]
    /\ activeAccounts = <<>>
    /\ roundRobinIndex = 0
    /\ initializationPromise = 1
    /\ warm = <<WarmAt(CandidateAccounts(accounts, db),
                       NextCandidate(CandidateAccounts(accounts, db), 1, accounts, 0, StartTime),
                       accounts)>>
    /\ now = StartTime
    /\ fetch = [f \in Fetches |-> IdleFetch]
    /\ adminOps = 0
    /\ disk = Stored(accounts, db)
    /\ OthersIdle

NextSix ==
    \/ \E w \in 1..MaxWarmups, ok \in BOOLEAN : TokenLoginResult(w, ok)
    \/ \E w \in 1..MaxWarmups, res \in {"ok", "fail"} : LoginResult(w, res)
    \/ resetFailedLogins

SpecSix == InitSix /\ [][NextSix]_vars

----------------------------------------------------------------------------
(* One credential and one authenticator that is called again and again.  *)
(* The responses include a 2xx whose body carries the "Authorization:     *)
(* Denied by access control" error, and the caller may abort the request. *)

\* fetch is called again after the previous call is over; the slot shows the
\* previous call's last response until the new call's first dispatch
FetchAgain(f) ==
    /\ ~Runnable
    /\ fetch[f].pc = "done"
    /\ fetch' = [fetch EXCEPT ![f] =
                   [IdleFetch EXCEPT !.pc = "wait",
                                     !.activePoolSize = Len(activeAccounts),
                                     !.maxRetries = MaxRetries(Len(activeAccounts)),
                                     !.attempt = 1,
                                     !.promise = initializationPromise,
                                     !.acct = fetch[f].acct,
                                     !.status = fetch[f].status]]
    /\ UNCHANGED <<accounts, db, activeAccounts, roundRobinIndex,
                   initializationPromise, warm, now, adminOps>>
    /\ UNCHANGED <<disk, otherVars>>

\* response.ok, and the body's errors[0].message is the access-control denial:
\* the body is not read
FetchOkDenied(f) ==
    /\ ~Runnable
    /\ fetch[f].pc = "req"
    /\ fetch' = [fetch EXCEPT ![f] =
                   Finish([@ EXCEPT !.status = 200, !.deniedBody = TRUE], "returned")]
    /\ UNCHANGED <<accounts, db, activeAccounts, roundRobinIndex,
                   initializationPromise, warm, now, adminOps>>
    /\ UNCHANGED <<disk, otherVars>>

\* the caller aborted init.signal: telemetryFetch rejects and the catch runs
FetchAborted(f) ==
    /\ ~Runnable
    /\ fetch[f].pc = "req"
    /\ markFailed(accounts[fetch[f].acct].username)
    /\ fetch' = [fetch EXCEPT ![f] = Continue([@ EXCEPT !.status = Aborted],
                                              initializationPromise')]
    /\ UNCHANGED <<db, roundRobinIndex, now, adminOps>>
    /\ UNCHANGED otherVars

InitCalls ==
    /\ \E tok \in BOOLEAN : accounts = <<NewAccount("a", tok)>>
    /\ db = <<1>>
    /\ activeAccounts = <<>>
    /\ roundRobinIndex = 0
    /\ initializationPromise = 1
    /\ warm = <<WarmAt(db, 1, accounts)>>
    /\ now = StartTime
    /\ fetch = [f \in Fetches |-> IdleFetch]
    /\ adminOps = 0
    /\ disk = Stored(accounts, db)
    /\ OthersIdle

NextCalls ==
    \/ \E w \in 1..MaxWarmups, ok \in BOOLEAN : TokenLoginResult(w, ok)
    \/ \E w \in 1..MaxWarmups, res \in {"ok", "fail", "arkose"} : LoginResult(w, res)
    \/ \E w \in 1..MaxWarmups : ArkoseWaitDone(w)
    \/ \E f \in Fetches : FetchStart(f)
    \/ \E f \in Fetches : FetchAgain(f)
    \/ \E f \in Fetches : FetchDispatch(f)
    \/ \E f \in Fetches : FetchSleepDone(f)
    \/ \E f \in Fetches : FetchOk(f)
    \/ \E f \in Fetches : FetchOkDenied(f)
    \/ \E f \in Fetches, hdr \in HeaderValues \cup {NoHeader} : FetchRateLimited(f, hdr)
    \/ \E f \in Fetches, st \in Statuses : FetchAuthError(f, st)
    \/ \E f \in Fetches, st \in Statuses : FetchOtherStatus(f, st)
    \/ \E f \in Fetches : FetchNetworkError(f)
    \/ \E f \in Fetches : FetchAborted(f)
    \/ resetFailedLogins
    \/ Tick

SpecCalls == InitCalls /\ [][NextCalls]_vars

----------------------------------------------------------------------------
(* The store of src/src/account-manager.ts, the AccountManager that the   *)
(* HTTP routes import: its addAccounts and deleteAccount.                 *)

\* the forEach of addAccounts: every record with a username is pushed
RECURSIVE AM_AddEach(_, _, _, _)
AM_AddEach(batch, tok, i, st) ==
    IF i > Len(batch) THEN st
    ELSE AM_AddEach(batch, tok, i + 1,
                    [accounts |-> Append(st.accounts, NewAccount(batch[i], tok)),
                     db |-> Append(st.db, Len(st.accounts) + 1)])

AM_addAccounts(batch, tok) ==
    /\ batch \in Batches
    /\ LET st == AM_AddEach(batch, tok, 1, [accounts |-> accounts, db |-> db])
       IN  /\ Len(st.accounts) <= MaxObjs
           /\ accounts' = st.accounts
           /\ db' = st.db
    /\ adminOps < MaxAdminOps
    /\ adminOps' = adminOps + 1
    /\ UNCHANGED <<activeAccounts, roundRobinIndex, initializationPromise, warm, now, fetch>>
    /\ disk' = Stored(accounts', db')
    /\ UNCHANGED otherVars

AM_deleteAccount(u) ==
    /\ u \in Users
    /\ db' = SelectSeq(db, LAMBDA o : accounts[o].username # u)
    /\ adminOps < MaxAdminOps
    /\ adminOps' = adminOps + 1
    /\ UNCHANGED <<accounts, activeAccounts, roundRobinIndex, initializationPromise,
                   warm, now, fetch>>
    /\ IF Len(db') # Len(db) THEN disk' = Stored(accounts', db') ELSE UNCHANGED disk
    /\ UNCHANGED otherVars

\* new AccountManager([], { statePath }) on a state file that does not exist
AM_Init ==
    /\ accounts = <<>>
    /\ db = <<>>
    /\ activeAccounts = <<>>
    /\ roundRobinIndex = 0
    /\ initializationPromise = 0
    /\ warm = <<>>
    /\ now = StartTime
    /\ fetch = [f \in Fetches |-> IdleFetch]
    /\ adminOps = 0
    /\ disk = Stored(accounts, db)
    /\ OthersIdle

AM_Next ==
    \/ \E batch \in Batches, tok \in BOOLEAN : AM_addAccounts(batch, tok)
    \/ \E u \in Users : AM_deleteAccount(u)

AM_Spec == AM_Init /\ [][AM_Next]_vars

----------------------------------------------------------------------------
(* Properties *)

ActiveSet == {activeAccounts[i] : i \in 1..Len(activeAccounts)}
ActiveSetNext == {activeAccounts'[i] : i \in 1..Len(activeAccounts')}
InProgress(f) == fetch[f].pc \in {"wait", "req", "sleep"}

\* C1: no account with failedLogin = true is in the active set.
C1_FailedNotActive ==
    \A o \in ActiveSet : ~accounts[o].failedLogin

\* C8: at most one _initializePool call is in flight at any time.
C8_AtMostOneWarmup ==
    Cardinality({w \in 1..Len(warm) : InFlight(w)}) <= 1

\* C9: the active set never holds more than poolSize sessions.
C9_ActiveAtMostPoolSize ==
    Len(activeAccounts) <= poolSize

\* a step in which getNextAccount hands a session to fetch call f
Dispatched(f) ==
    /\ fetch[f].pc = "wait"
    /\ fetch'[f] # fetch[f]
    /\ fetch'[f].acct # 0

\* C2: a session handed out by getNextAccount is not rate-limited at that
\* moment: its rateLimitedUntil was not in the future, an expired value has
\* been cleared, and the field is absent or not later than now on return.
C2_DispatchedNotRateLimited ==
    [][\A f \in Fetches :
         Dispatched(f) =>
            LET o == fetch'[f].acct
            IN  /\ ~(accounts[o].rateLimitedUntil # NoTime /\ accounts[o].rateLimitedUntil > now)
                /\ accounts'[o].rateLimitedUntil = NoTime \/ accounts'[o].rateLimitedUntil <= now
                /\ (accounts[o].rateLimitedUntil # NoTime /\ accounts[o].rateLimitedUntil <= now)
                      => accounts'[o].rateLimitedUntil = NoTime]_vars

\* getNextAccount has handed out a session that is not rate-limited while
\* another session of the active set is rate-limited in the future
C2_Witness ==
    \E f \in Fetches :
        /\ fetch[f].pc = "req"
        /\ ~RateLimitedNow(accounts, fetch[f].acct, now)
        /\ \E o \in ActiveSet : o # fetch[f].acct /\ RateLimitedNow(accounts, o, now)

\* C3 as stated: a fetch call issues requests on at most as many distinct
\* sessions as the active set held when the call started.
C3_TriedAtMostPoolSizeAtStart ==
    \A f \in Fetches :
        InProgress(f) => Cardinality(fetch[f].triedUsernames) <= fetch[f].activePoolSize

\* C3 amended: a fetch call issues requests on at most
\* max(active pool size when the call started, 1) distinct sessions.
C3_TriedAtMostMaxRetries ==
    \A f \in Fetches :
        InProgress(f) =>
            Cardinality(fetch[f].triedUsernames) <= Max(fetch[f].activePoolSize, 1)

\* a call that started on an empty active set has a request in flight
C3_Witness ==
    \E f \in Fetches :
        /\ fetch[f].pc = "req"
        /\ fetch[f].activePoolSize = 0
        /\ Cardinality(fetch[f].triedUsernames) = 1

\* fetch call f ends in this step
Ends(f) == fetch[f].pc # "done" /\ fetch'[f].pc = "done"

\* C4: a fetch call that has received a response that is not 2xx ends by
\* returning a 2xx response or by throwing the exhausted-accounts error.
C4_Returns2xxOrExhausted ==
    [][\A f \in Fetches :
         (Ends(f) /\ fetch[f].triedUsernames # {}) =>
            \/ fetch'[f].outcome = "returned" /\ fetch'[f].status = 200
            \/ fetch'[f].outcome = "exhausted"]_vars

\* C5: when a fetch call throws the exhausted-accounts error, every session
\* that is active and not rate-limited has been tried by that call.
C5_ExhaustedOnlyAfterAllTried ==
    [][\A f \in Fetches :
         (Ends(f) /\ fetch'[f].outcome = "exhausted") =>
            \A o \in ActiveSetNext :
                Usable(accounts', o, now) =>
                    accounts'[o].username \in fetch[f].triedUsernames]_vars

\* the response of fetch call f's request arrives in this step with status st
Responded(f, st) == fetch[f].pc = "req" /\ fetch'[f].status = st

C7_MarkFailedOn401 ==
    [][\A f \in Fetches :
         (Responded(f, 401) \/ Responded(f, 403)) =>
            LET u == accounts[fetch[f].acct].username
                i == FindIndex(db, accounts, u)
            IN  /\ i # 0 => /\ accounts'[db[i]].failedLogin
                            /\ accounts'[db[i]].tokenState = "failed"
                /\ \A o \in ActiveSetNext : accounts'[o].username # u]_vars

\* C10: except in a resetFailedLogins step, a session leaves the active set
\* only in a step that marks its own account failed or deletes it.
C10_LeavesOnlyOnOwnFailure ==
    [][~resetFailedLogins =>
         \A o \in ActiveSet :
            o \notin ActiveSetNext =>
                \/ accounts'[o].failedLogin /\ ~accounts[o].failedLogin
                \/ (\E i \in 1..Len(db) : db[i] = o) /\ ~(\E i \in 1..Len(db') : db'[i] = o)]_vars

InStore(o) == \E i \in 1..Len(db) : db[i] = o

\* C11: once deleteAccount has removed an account, no session of its
\* username is in the active set until the username is imported again: every
\* active session's username is the username of an account in the store.
C11_DeletedNotActive ==
    \A o \in ActiveSet : FindIndex(db, accounts, accounts[o].username) # 0

\* C12: every account in the store with failedLogin = true has
\* tokenState = failed.
C12_FailedLoginImpliesTokenFailed ==
    \A i \in 1..Len(db) :
        accounts[db[i]].failedLogin => accounts[db[i]].tokenState = "failed"

\* markFailed has marked an account of the store after a 401 or 403
C12_Witness ==
    \E f \in Fetches :
        /\ fetch[f].status \in {401, 403}
        /\ InStore(fetch[f].acct)
        /\ accounts[fetch[f].acct].failedLogin
        /\ accounts[fetch[f].acct].tokenState = "failed"

\* the await in ensureInitialized of fetch call f is over in this step
DispatchCompletes(f) == fetch[f].pc = "wait" /\ fetch'[f] # fetch[f]

\* C13: a dispatch does not complete while a warm-up that was in flight when
\* it was issued is still in flight, and it fails with the pool-empty error
\* when the active set is empty at that moment.
C13_DispatchAfterWarmup ==
    [][\A f \in Fetches :
         DispatchCompletes(f) =>
            /\ \A w \in 1..fetch[f].promise : ~InFlight(w)
            /\ Len(activeAccounts) = 0 => fetch'[f].outcome = "poolEmpty"]_vars

\* C15: when resetFailedLogins returns, every account in the store has
\* failedLogin = false and tokenState = unknown, and rateLimitedUntil and
\* lastFailedAt are cleared.
C15_ResetClearsAll ==
    [][resetFailedLogins =>
         \A i \in 1..Len(db') :
            /\ ~accounts'[db'[i]].failedLogin
            /\ accounts'[db'[i]].tokenState = "unknown"
            /\ accounts'[db'[i]].rateLimitedUntil = NoTime
            /\ accounts'[db'[i]].lastFailedAt = NoTime]_vars

\* resetFailedLogins has reset an account that had been logged in before
C15_Witness ==
    /\ adminOps > 0
    /\ \E i \in 1..Len(db) :
          /\ accounts[db[i]].lastUsed # NoTime
          /\ accounts[db[i]].tokenState = "unknown"
    /\ \A i \in 1..Len(db) :
          /\ ~accounts[db[i]].failedLogin
          /\ accounts[db[i]].tokenState = "unknown"
          /\ accounts[db[i]].rateLimitedUntil = NoTime
          /\ accounts[db[i]].lastFailedAt = NoTime

\* the (0-based) index of the session that the dispatch of this step returns
ReturnedIndex == (roundRobinIndex' + Len(activeAccounts) - 1) % Len(activeAccounts)

\* C19: getNextAccount returns the first session, in cyclic order from
\* roundRobinIndex, that is not rate-limited, and leaves roundRobinIndex just
\* behind it, so that P dispatches in a row over P sessions that are not
\* rate-limited return P distinct sessions; it returns null only when every
\* active session is rate-limited; nothing else moves roundRobinIndex.
C19_RoundRobin ==
    [][/\ \A f \in Fetches :
            /\ Dispatched(f) =>
                 LET P == Len(activeAccounts)
                     k == ReturnedIndex
                     skipped == (k + P - (roundRobinIndex % P)) % P
                 IN  /\ activeAccounts[k + 1] = fetch'[f].acct
                     /\ \A j \in 0..(P - 1) :
                           j < skipped =>
                              RateLimitedNow(accounts,
                                             activeAccounts[((roundRobinIndex + j) % P) + 1], now)
            /\ (DispatchCompletes(f) /\ fetch'[f].pc = "sleep") =>
                 /\ Len(activeAccounts) > 0
                 /\ \A o \in ActiveSet : RateLimitedNow(accounts, o, now)
       /\ roundRobinIndex' # roundRobinIndex => \E f \in Fetches : Dispatched(f)]_vars

\* one call has been given two different sessions in a row, the second from
\* index 1, while no account is rate-limited or failed
C19_Witness ==
    \E f \in Fetches :
        /\ fetch[f].pc = "req"
        /\ fetch[f].attempt = 2
        /\ Cardinality(fetch[f].triedUsernames) = 2
        /\ Len(activeAccounts) = 2
        /\ roundRobinIndex = 0
        /\ \A o \in ActiveSet : ~RateLimitedNow(accounts, o, now) /\ ~accounts[o].failedLogin

\* C14: with one credential, whose session got a 401 and whose account was
\* marked failed, the next fetch call fails with the exhausted-accounts error.
C14_NextFetchExhausted ==
    [][\A f \in Fetches :
         ( /\ DispatchCompletes(f)
           /\ fetch[f].attempt = 1
           /\ fetch[f].status = 401
           /\ Len(db) = 1
           /\ fetch[f].acct = db[1]
           /\ accounts[db[1]].failedLogin )
         => fetch'[f].pc = "done" /\ fetch'[f].outcome = "exhausted"]_vars

\* C17: when the upstream call is aborted by the caller, failedLogin,
\* tokenState and the active set are left as they were.
C17_AbortDoesNotMarkFailed ==
    [][\A f \in Fetches :
         Responded(f, Aborted) =>
            /\ activeAccounts' = activeAccounts
            /\ \A o \in DOMAIN accounts :
                  /\ accounts'[o].failedLogin = accounts[o].failedLogin
                  /\ accounts'[o].tokenState = accounts[o].tokenState]_vars

\* C18: a response whose body carries the access-control denial is not
\* returned to the caller: the account of its session is marked failed and
\* the call goes on to another session or fails.
C18_DeniedBodyTreatedAs403 ==
    [][\A f \in Fetches :
         (fetch[f].pc = "req" /\ fetch'[f].deniedBody) =>
            /\ fetch'[f].outcome # "returned"
            /\ InStore(fetch[f].acct) => accounts'[fetch[f].acct].failedLogin]_vars

\* C16: the store holds at most one record per username, whatever add calls
\* were made and whatever a batch repeats.
C16_OneRecordPerUsername ==
    \A i, j \in 1..Len(db) :
        accounts[db[i]].username = accounts[db[j]].username => i = j

\* warm-up w calls scraper.loginWithToken or scraper.login in this step
LoginStarts(w) ==
    /\ warm'[w].pc \in {"tokenLogin", "login"}
    /\ \/ w > Len(warm)
       \/ warm[w].pc # warm'[w].pc
       \/ warm[w].idx # warm'[w].idx

\* C20: no warm-up starts a login call for an account that a failed warm-up
\* login has marked failedLogin = true, as long as resetFailedLogins has not
\* cleared the mark.
C20_NoLoginForFailed ==
    [][\A w \in 1..Len(warm') :
         LoginStarts(w) => ~accounts'[warm'[w].cands[warm'[w].idx]].failedLogin]_vars


\* no pool operation is in progress: every warm-up has finished and every
\* fetch call has returned or not started
Quiescent ==
    /\ \A w \in 1..Len(warm) : ~InFlight(w)
    /\ \A f \in Fetches : ~InProgress(f)

\* C24: between pool operations the persisted account list equals the
\* in-memory account list: every mutation of an AccountState field has been
\* written to the store when the mutating operation has returned.
C24_DiskEqualsMemory == Quiescent => disk = Stored(accounts, db)

----------------------------------------------------------------------------
(* TwitterUserAuth.login of src/src/auth-user.ts: the interactive login   *)
(* flow, one call, against an upstream that answers each flow request     *)
(* as it likes                                                            *)

MaxResponses == 4   \* flow requests answered in one login call

maxAttempts == 3
delayBetweenAttemptsMs == 2000

\* the pool is not involved: an empty store, no warm-up, no fetch
NoPool ==
    /\ accounts = <<>>
    /\ db = <<>>
    /\ activeAccounts = <<>>
    /\ roundRobinIndex = 0
    /\ initializationPromise = 0
    /\ warm = <<>>
    /\ now = StartTime
    /\ fetch = [f \in Fetches |-> IdleFetch]
    /\ adminOps = 0
    /\ disk = <<>>

HandledSubtasks ==
    {"LoginJsInstrumentationSubtask", "LoginEnterUserIdentifierSSO",
     "LoginEnterAlternateIdentifierSubtask", "LoginEnterPassword",
     "AccountDuplicationCheck", "LoginTwoFactorAuthChallenge", "LoginAcid"}

\* subtask ids the upstream can name; "SomethingElse" is any id that login
\* has no branch for, "None" an answer without subtasks
SubtaskIds ==
    HandledSubtasks \cup {"LoginSuccessSubtask", "DenyLoginSubtask", "SomethingElse", "None"}

\* what the upstream answers to one flow request: the fetch throws
\* ("network"), the body has a non-empty errors[] ("errors"; "invalid" is
\* the one whose message is "verification code is invalid"), or it is a
\* flow answer with a flow_token and at most one subtask; prompt is the
\* header text of a LoginAcid subtask
Answers ==
    [kind : {"network", "errors", "invalid"}, subtask : {"None"}, prompt : {"none"}]
    \cup [kind : {"flow"}, subtask : SubtaskIds \ {"LoginAcid"}, prompt : {"none"}]
    \cup [kind : {"flow"}, subtask : {"LoginAcid"}, prompt : {"email", "code"}]

\* the FlowTokenResult that executeFlowTask makes of an answer
executeFlowTask(a) ==
    IF a.kind # "flow"
    THEN [status |-> "error", subtask |-> "None", prompt |-> "none",
          invalid |-> (a.kind = "invalid")]
    ELSE IF a.subtask = "DenyLoginSubtask"
    THEN [status |-> "error", subtask |-> "None", prompt |-> "none", invalid |-> FALSE]
    ELSE [status |-> "success", subtask |-> a.subtask, prompt |-> a.prompt,
          invalid |-> FALSE]

NoResult == [status |-> "none", subtask |-> "None", prompt |-> "none", invalid |-> FALSE]

LoginIdle ==
    [pc |-> "idle", email |-> FALSE, emailPassword |-> FALSE, secret |-> FALSE,
     generator |-> FALSE, next |-> NoResult, attempt |-> 0, waits |-> <<>>,
     trace |-> <<>>]


Fail(l) == [l EXCEPT !.pc = "failed"]

\* the wait of handleTwoFactorAuthChallenge after a failed attempt
TwoFactorDelay(attempt) == delayBetweenAttemptsMs * attempt

\* the branch of the while loop for the subtask of l.next, up to the
\* request it sends or the error it throws
Dispatch(l) ==
    LET id == l.next.subtask
    IN  CASE id \in {"LoginJsInstrumentationSubtask", "LoginEnterUserIdentifierSSO",
                     "LoginEnterPassword", "AccountDuplicationCheck"} ->
               [l EXCEPT !.pc = "flow"]
          [] id = "LoginEnterAlternateIdentifierSubtask" ->
               IF l.email THEN [l EXCEPT !.pc = "flow"] ELSE Fail(l)
          [] id = "LoginTwoFactorAuthChallenge" ->
               IF l.secret
               THEN [l EXCEPT !.pc = "twofa", !.attempt = 1, !.waits = <<>>]
               ELSE Fail(l)
          [] id = "LoginAcid" ->
               IF l.next.prompt = "code"
               THEN IF l.email /\ l.emailPassword
                    THEN [l EXCEPT !.pc = "emailCode"]
                    ELSE Fail(l)
               ELSE IF l.email THEN [l EXCEPT !.pc = "flow"] ELSE Fail(l)
          [] id = "LoginSuccessSubtask" -> [l EXCEPT !.pc = "isLoggedIn"]
          [] OTHER -> Fail(l)

\* login from the point where initLogin or a handler has returned l.next
AfterAnswer(l) ==
    IF l.next.status = "error" THEN Fail(l)
    ELSE IF l.next.subtask = "None" THEN Fail(l)
    ELSE Dispatch(l)

LoginFrame == UNCHANGED poolVars /\ UNCHANGED <<timeline, parser, request>>

\* scraper.login(username, password, email, twoFactorSecret, emailPassword)
LoginStart(email, emailPassword, secret) ==
    /\ login.pc = "idle"
    /\ login' = [login EXCEPT !.pc = "updateGuestToken", !.email = email,
                              !.emailPassword = emailPassword, !.secret = secret]
    /\ LoginFrame

\* await this.updateGuestToken()
LoginGuestToken(ok) ==
    /\ login.pc = "updateGuestToken"
    /\ login' = IF ok THEN [login EXCEPT !.pc = "initTransactionIdGenerator"]
                      ELSE Fail(login)
    /\ LoginFrame

\* await this.initTransactionIdGenerator(): on any error it leaves the
\* generator null and throws; otherwise login goes on to initLogin
LoginInitTransactionId(ok) ==
    /\ login.pc = "initTransactionIdGenerator"
    /\ login' = IF ok THEN [login EXCEPT !.pc = "flow", !.generator = TRUE]
                      ELSE Fail([login EXCEPT !.generator = FALSE])
    /\ LoginFrame

\* the answer to the flow request of initLogin or of a handler other than
\* the two-factor one
LoginFlowAnswer(a) ==
    /\ login.pc = "flow"
    /\ a \in Answers
    /\ Len(login.trace) < MaxResponses
    /\ login' = AfterAnswer([login EXCEPT !.next = executeFlowTask(a),
                                          !.trace = Append(@, a)])
    /\ LoginFrame

\* fetchConfirmationCodeFromEmail of handleAcid returned a code or threw
LoginEmailCode(ok) ==
    /\ login.pc = "emailCode"
    /\ login' = IF ok THEN [login EXCEPT !.pc = "flow"] ELSE Fail(login)
    /\ LoginFrame

\* the answer to a code submitted by handleTwoFactorAuthChallenge: an
\* error result is recorded and waited on, whether it is the invalid-code
\* one (continue) or another (thrown inside the try, caught by its catch)
LoginTwoFactorAnswer(a) ==
    /\ login.pc = "twofa"
    /\ a \in Answers
    /\ Len(login.trace) < MaxResponses
    /\ LET result == executeFlowTask(a)
           l == [login EXCEPT !.trace = Append(@, a)]
       IN  login' =
             IF result.status = "error"
             THEN [l EXCEPT !.pc = "twofaWait",
                            !.waits = Append(@, TwoFactorDelay(l.attempt))]
             ELSE AfterAnswer([l EXCEPT !.next = result])
    /\ LoginFrame

\* the wait is over: the next attempt, or the throw after the last one
LoginTwoFactorWaitDone ==
    /\ login.pc = "twofaWait"
    /\ login' = IF login.attempt + 1 <= maxAttempts
                THEN [login EXCEPT !.pc = "twofa", !.attempt = @ + 1]
                ELSE Fail(login)
    /\ LoginFrame

\* await this.isLoggedIn() after the flow: a false answer is only logged
LoginIsLoggedIn(res) ==
    /\ login.pc = "isLoggedIn"
    /\ res \in BOOLEAN
    /\ login' = [login EXCEPT !.pc = "ok"]
    /\ LoginFrame

Login_Init ==
    /\ NoPool
    /\ login = LoginIdle
    /\ timeline = Idle /\ parser = Idle /\ request = Idle

Login_Next ==
    \/ \E email \in BOOLEAN, emailPassword \in BOOLEAN, secret \in BOOLEAN :
          LoginStart(email, emailPassword, secret)
    \/ \E ok \in BOOLEAN : LoginGuestToken(ok)
    \/ \E ok \in BOOLEAN : LoginInitTransactionId(ok)
    \/ \E a \in Answers : LoginFlowAnswer(a)
    \/ \E ok \in BOOLEAN : LoginEmailCode(ok)
    \/ \E a \in Answers : LoginTwoFactorAnswer(a)
    \/ LoginTwoFactorWaitDone
    \/ \E res \in BOOLEAN : LoginIsLoggedIn(res)

Login_Spec == Login_Init /\ [][Login_Next]_vars

\* the upstream's answers reach LoginSuccessSubtask through handled
\* subtasks only
FlowReachedSuccess(tr) ==
    /\ Len(tr) > 0
    /\ tr[Len(tr)].kind = "flow"
    /\ tr[Len(tr)].subtask = "LoginSuccessSubtask"
    /\ \A i \in 1..(Len(tr) - 1) : tr[i].kind = "flow" /\ tr[i].subtask \in HandledSubtasks

\* C21: the login call completes successfully if and only if the
\* upstream's answers reach LoginSuccessSubtask through handled subtasks;
\* a DenyLoginSubtask, an unknown subtask, an errors[] array, a network
\* error or an answer without subtask before it ends the call in failure.
C21_SuccessIffFlowReachesSuccess ==
    login.pc \in {"ok", "failed"} =>
        (login.pc = "ok" <=> FlowReachedSuccess(login.trace))


\* the number of "verification code is invalid" answers among the last n
\* answers
Rejections(tr, n) ==
    Cardinality({i \in (Len(tr) - n + 1)..Len(tr) : tr[i].kind = "invalid"})

\* C22: in a two-factor challenge a code is submitted at most 3 times; the
\* first, second and third "verification code is invalid" answer is
\* followed by a wait of 2 s, 4 s and 6 s; after the third attempt has
\* failed the login fails.
C22_TwoFactorRetries ==
    [][/\ login'.attempt <= 3
       /\ (/\ login.pc = "twofa"
           /\ Len(login'.trace) = Len(login.trace) + 1
           /\ login'.trace[Len(login'.trace)].kind = "invalid")
          => /\ login'.pc = "twofaWait"
             /\ login'.waits = Append(login.waits,
                                      2000 * Rejections(login'.trace, login.attempt))
       /\ (login.pc = "twofaWait" /\ login.attempt = 3) => login'.pc = "failed"
      ]_vars

\* C23: when the transaction-id generator cannot be initialised, the login
\* does not fail because of it: it goes on to its flow requests.
C23_LoginProceedsWithoutTransactionId ==
    [][(login.pc = "initTransactionIdGenerator" /\ ~login'.generator)
          => login'.pc # "failed"]_vars


----------------------------------------------------------------------------
(* Paginated listings.  The upstream of a listing is a finite chain of    *)
(* pages: the first is requested with the empty cursor, page k + 1 with   *)
(* the cursor that page k returned; the last page returns no cursor, or   *)
(* returns the cursor it was requested with.                              *)

MaxPages == 2       \* pages of an upstream listing
MaxItems == 3       \* largest max_items / until of a listing
MaxRequests == 4    \* page requests of the community-members loop

ItemIds == {1, 2, 3}
Absent == -1                        \* a page without next_cursor
EmptyCursor == 0                    \* the cursor of the first request

PageValues == {<<>>} \cup {<<x>> : x \in ItemIds} \cup {<<x, y>> : x \in ItemIds, y \in ItemIds}
Listings == UNION {[1..n -> PageValues] : n \in 1..MaxPages}
ChainEnds == {"absent", "same"}

\* the answer of the upstream to a request with cursor c
FetchPage(pages, end, c) ==
    [items |-> pages[c + 1],
     next  |-> IF c + 1 < Len(pages) THEN c + 1
               ELSE IF end = "absent" THEN Absent ELSE c]

TimelineFrame == UNCHANGED poolVars /\ UNCHANGED <<login, parser, request>>

(* the stream driver (getTweetTimeline / getUserTimeline of               *)
(* ./timeline-async), as section 4.8 of the specification describes it    *)

\* (a variant that yields an item whether or not its id was seen)
RECURSIVE YieldItemsNoSkip(_, _, _, _)
YieldItemsNoSkip(items, i, max, st) ==
    IF i > Len(items) \/ Len(st.out) = max THEN st
    ELSE YieldItemsNoSkip(items, i + 1, max,
                          [out |-> Append(st.out, items[i]),
                           seen |-> st.seen \cup {items[i]}])

\* step 3: the items of a page from item i on; st is the items yielded so
\* far and the ids seen
RECURSIVE YieldItems(_, _, _, _)
YieldItems(items, i, max, st) ==
    IF i > Len(items) \/ Len(st.out) = max THEN st
    ELSE IF items[i] \in st.seen
         THEN YieldItems(items, i + 1, max, st)
         ELSE YieldItems(items, i + 1, max,
                         [out |-> Append(st.out, items[i]),
                          seen |-> st.seen \cup {items[i]}])

\* steps 2 to 4: one page is fetched, its items are yielded, and the
\* driver terminates or moves to the next cursor
StreamPage ==
    /\ timeline.pc = "fetch"
    /\ LET page == FetchPage(timeline.pages, timeline.end, timeline.cursor)
           st == YieldItems(page.items, 1, timeline.max,
                            [out |-> timeline.out, seen |-> timeline.seen])
       IN  timeline' =
             [timeline EXCEPT
                !.out = st.out,
                !.seen = st.seen,
                !.pc = IF \/ Len(st.out) = timeline.max
                          \/ page.next = Absent
                          \/ page.next = timeline.cursor
                       THEN "done" ELSE "fetch",
                !.cursor = IF \/ Len(st.out) = timeline.max
                              \/ page.next = Absent
                           THEN @ ELSE page.next]
    /\ TimelineFrame

\* step 1, for any upstream listing and any max_items
Stream_Init ==
    /\ NoPool
    /\ login = Idle /\ parser = Idle /\ request = Idle
    /\ \E pages \in Listings, end \in ChainEnds, max \in 1..MaxItems :
          timeline = [pc |-> "fetch", pages |-> pages, end |-> end, max |-> max,
                      cursor |-> EmptyCursor, out |-> <<>>, seen |-> {}]

Stream_Next == StreamPage

\* the consumer keeps pulling: a page that can be fetched is fetched
Stream_Spec == Stream_Init /\ [][Stream_Next]_vars /\ WF_vars(Stream_Next)


\* the items of all pages of a listing, in page order
RECURSIVE Concat(_, _)
Concat(pages, i) == IF i > Len(pages) THEN <<>> ELSE pages[i] \o Concat(pages, i + 1)

\* the positions at which an id occurs for the first time
FirstAt(all) == {i \in 1..Len(all) : \A j \in 1..(i - 1) : all[j] # all[i]}

\* the first n distinct items, in upstream order
FirstDistinct(all, n) ==
    [k \in 1..n |->
        all[CHOOSE i \in FirstAt(all) : Cardinality({j \in FirstAt(all) : j <= i}) = k]]

Min(a, b) == IF a < b THEN a ELSE b

UpstreamTotal == Cardinality(FirstAt(Concat(timeline.pages, 1)))

\* C25: a stream with max_items = N yields the first min(N, upstream_total)
\* distinct items of the upstream, in the upstream's page order, and then
\* terminates.
C25_StreamYieldsMinThenTerminates ==
    /\ [](/\ Len(timeline.out) <= Min(timeline.max, UpstreamTotal)
          /\ timeline.out = FirstDistinct(Concat(timeline.pages, 1), Len(timeline.out))
          /\ timeline.pc = "done" => Len(timeline.out) = Min(timeline.max, UpstreamTotal))
    /\ <>(timeline.pc = "done")

\* a stream has ended on a listing of two pages that repeats an id, with
\* fewer distinct items than max_items
C25_Witness ==
    /\ timeline.pc = "done"
    /\ Len(timeline.pages) = 2
    /\ Len(Concat(timeline.pages, 1)) > UpstreamTotal
    /\ UpstreamTotal < timeline.max
    /\ Len(timeline.out) = 2


----------------------------------------------------------------------------
(* GET /:id/members of src/src/apid/community.ts: the loop over the       *)
(* pages of a community's member list                                     *)

\* one pass of the while loop: the page is requested, its items are
\* pushed, and the loop breaks on a falsy next_cursor or goes on with the
\* cursor of the page, until results.length reaches until
MembersPage ==
    /\ timeline.pc = "loop"
    /\ timeline.requests < MaxRequests
    /\ LET page == FetchPage(timeline.pages, timeline.end, timeline.cursor)
           results == timeline.results \o page.items
       IN  timeline' =
             IF page.next = Absent \/ page.next = EmptyCursor
             THEN [timeline EXCEPT !.results = results, !.requests = @ + 1,
                                   !.pc = "done"]
             ELSE [timeline EXCEPT !.results = results, !.requests = @ + 1,
                                   !.cursor = page.next,
                                   !.pc = IF Len(results) < timeline.until
                                          THEN "loop" ELSE "done"]
    /\ TimelineFrame

\* requestApi answered without success: the handler throws res.err
MembersError ==
    /\ timeline.pc = "loop"
    /\ timeline.requests < MaxRequests
    /\ timeline' = [timeline EXCEPT !.requests = @ + 1, !.pc = "error"]
    /\ TimelineFrame

Members_Init ==
    /\ NoPool
    /\ login = Idle /\ parser = Idle /\ request = Idle
    /\ \E pages \in Listings, end \in ChainEnds, until \in 1..MaxItems :
          timeline = [pc |-> "loop", pages |-> pages, end |-> end, until |-> until,
                      cursor |-> EmptyCursor, results |-> <<>>, requests |-> 0]

Members_Next == MembersPage \/ MembersError

Members_Spec == Members_Init /\ [][Members_Next]_vars

\* C26: when a page of the listing returns no next_cursor, or the cursor
\* it was requested with, the listing terminates after that page, also
\* when the page has no items.
C26_TerminatesOnAbsentOrSameCursor ==
    [][(/\ timeline.pc = "loop"
        /\ timeline'.requests = timeline.requests + 1
        /\ timeline'.pc # "error"
        /\ LET next == FetchPage(timeline.pages, timeline.end, timeline.cursor).next
           IN  next = Absent \/ next = timeline.cursor)
       => timeline'.pc = "done"]_vars


----------------------------------------------------------------------------
(* getAllTweetsEver of src/src/search.ts: passes of searchTweets over     *)
(* `from:<username> max_id:<id>`, which the upstream answers with the     *)
(* user's tweets of id <= max_id, newest first                            *)

MaxTweetId == 5     \* tweet ids of the user are in 1..MaxTweetId

NoMaxId == 0                        \* max_id = '': the query has no max_id

\* the members of a set of ids, largest first
Descending(T) ==
    [i \in 1..Cardinality(T) |->
        CHOOSE t \in T : Cardinality({u \in T : u > t}) = i - 1]

\* what the upstream has for the query with max_id m
SearchResults(tweets, m) ==
    Descending({t \in tweets : m = NoMaxId \/ t <= m})

\* (a variant that yields every result, seen before or not)
RECURSIVE EverEachNoSeen(_, _, _)
EverEachNoSeen(results, i, st) ==
    IF i > Len(results) THEN st
    ELSE EverEachNoSeen(results, i + 1,
                        [out |-> Append(st.out, results[i]),
                         seen |-> st.seen \cup {results[i]},
                         lowest |-> IF st.lowest = 0 \/ results[i] < st.lowest
                                    THEN results[i] ELSE st.lowest])

\* the for await loop over the results from result i on; st is the items
\* yielded, the ids seen and the lowest new id of the pass (0 for null)
RECURSIVE EverEach(_, _, _)
EverEach(results, i, st) ==
    IF i > Len(results) THEN st
    ELSE IF results[i] \in st.seen
         THEN EverEach(results, i + 1, st)
         ELSE EverEach(results, i + 1,
                       [out |-> Append(st.out, results[i]),
                        seen |-> st.seen \cup {results[i]},
                        lowest |-> IF st.lowest = 0 \/ results[i] < st.lowest
                                   THEN results[i] ELSE st.lowest])

\* one pass of the while loop: the search yields its first k results and
\* is exhausted
EverPass(k) ==
    /\ timeline.pc = "pass"
    /\ LET results == SearchResults(timeline.tweets, timeline.max_id)
           st == EverEach(SubSeq(results, 1, k), 1,
                          [out |-> timeline.out, seen |-> timeline.seen, lowest |-> 0])
       IN  /\ k \in 0..Len(results)
           /\ timeline' =
                IF st.lowest = 0
                THEN [timeline EXCEPT !.pc = "done"]
                ELSE [timeline EXCEPT !.out = st.out, !.seen = st.seen,
                                      !.max_id = st.lowest]
    /\ TimelineFrame

Ever_Init ==
    /\ NoPool
    /\ login = Idle /\ parser = Idle /\ request = Idle
    /\ \E tweets \in SUBSET (1..MaxTweetId) :
          timeline = [pc |-> "pass", tweets |-> tweets, max_id |-> NoMaxId,
                      out |-> <<>>, seen |-> {}]

Ever_Next == \E k \in 0..MaxTweetId : EverPass(k)

Ever_Spec == Ever_Init /\ [][Ever_Next]_vars

SmallestSeen(seen) == CHOOSE t \in seen : \A u \in seen : t <= u

\* C27: after a pass that yielded a new item the search restarts with
\* max_id equal to the smallest tweet id seen so far minus 1; the first
\* pass that yields no new item ends the iteration.
C27_RestartsBelowSmallestSeen ==
    [][timeline.pc = "pass" =>
          IF timeline'.seen = timeline.seen
          THEN timeline'.pc = "done"
          ELSE /\ timeline'.pc = "pass"
               /\ timeline'.max_id = SmallestSeen(timeline'.seen) - 1]_vars


----------------------------------------------------------------------------
(* parseAccountList of src/src/search.ts.  A text is a sequence of atoms: *)
(* ":" and "\n" are the separator and the line break, a field name is one *)
(* atom, except that emailPassword is "email" followed by "Password",     *)
(* because the text `email` occurs in it; "x" and "y" are the characters  *)
(* of field values.                                                       *)

MaxFields == 2      \* fields of a format
MaxRecords == 2     \* records of a list

FieldNames == {"username", "password", "email", "emailPassword", "authToken",
               "twoFactorSecret"}
FieldValues == {<<>>, <<"x">>, <<"y">>}

\* the formats: field names, none twice, and ANY, joined by ":"
Formats ==
    {f \in UNION {[1..n -> FieldNames \cup {"ANY"}] : n \in 1..MaxFields} :
        \A i, j \in 1..Len(f) : (i # j /\ f[i] = f[j]) => f[i] = "ANY"}

Text(name) == IF name = "emailPassword" THEN <<"email", "Password">> ELSE <<name>>

\* the texts of the elements of s, joined by the atom sep
RECURSIVE Join(_, _, _)
Join(s, i, sep) ==
    IF i > Len(s) THEN <<>>
    ELSE IF i = Len(s) THEN s[i]
    ELSE s[i] \o <<sep>> \o Join(s, i + 1, sep)

FormatText(fields) == Join([i \in 1..Len(fields) |-> Text(fields[i])], 1, ":")

\* the list written out: one line per record, fields joined by ":"
Serialize(records) ==
    Join([i \in 1..Len(records) |-> Join(records[i], 1, ":")], 1, "\n")

\* a regular expression is a sequence of elements: a literal atom, a named
\* group (?<name>.*), or .*
Lit(a) == [kind |-> "lit", v |-> a]
Group(name) == [kind |-> "group", v |-> name]
Star == [kind |-> "star", v |-> ""]

\* .replace(/[.*+?^${}()|[\]\\]/g, '\\$&'): no atom of a format is a
\* special character, each stands for itself
Escape(text) == [i \in 1..Len(text) |-> Lit(text[i])]

Occurs(rx, pat, i) ==
    /\ i + Len(pat) - 1 <= Len(rx)
    /\ \A k \in 1..Len(pat) : rx[i + k - 1] = Lit(pat[k])

\* String.prototype.replace with a string pattern: the first occurrence
Replace(rx, name) ==
    LET pat == Text(name)
        at == {i \in 1..Len(rx) : Occurs(rx, pat, i)}
    IN  IF at = {} THEN rx
        ELSE LET i == CHOOSE j \in at : \A k \in at : j <= k
             IN  SubSeq(rx, 1, i - 1) \o <<Group(name)>>
                   \o SubSeq(rx, i + Len(pat), Len(rx))

ReplaceAllAny(rx) == [i \in 1..Len(rx) |-> IF rx[i] = Lit("ANY") THEN Star ELSE rx[i]]

\* the regexp built from the format
Regexp(formatText) ==
    ReplaceAllAny(
      Replace(Replace(Replace(Replace(Replace(Replace(Escape(formatText),
        "username"), "password"), "email"), "emailPassword"), "authToken"),
        "twoFactorSecret"))


NoMatch == [ok |-> FALSE, groups |-> <<>>]

\* the backtracking match of the elements of rx from element i on against
\* line from position p on: .* first takes all that is left, then less
RECURSIVE MatchFrom(_, _, _, _), MatchStar(_, _, _, _, _)
MatchFrom(rx, i, line, p) ==
    IF i > Len(rx) THEN [ok |-> TRUE, groups |-> <<>>]
    ELSE IF rx[i].kind = "lit"
         THEN IF p <= Len(line) /\ line[p] = rx[i].v
              THEN MatchFrom(rx, i + 1, line, p + 1)
              ELSE NoMatch
         ELSE MatchStar(rx, i, line, p, Len(line) - p + 1)

MatchStar(rx, i, line, p, n) ==
    LET rest == MatchFrom(rx, i + 1, line, p + n)
    IN  IF rest.ok
        THEN [ok |-> TRUE,
              groups |-> IF rx[i].kind = "group"
                         THEN (rx[i].v :> SubSeq(line, p, p + n - 1)) @@ rest.groups
                         ELSE rest.groups]
        ELSE IF n = 0 THEN NoMatch
        ELSE MatchStar(rx, i, line, p, n - 1)

\* line.match(exp): the leftmost match, the expression is not anchored
RECURSIVE Match(_, _, _)
Match(rx, line, p) ==
    IF p > Len(line) + 1 THEN NoMatch
    ELSE LET m == MatchFrom(rx, 1, line, p)
         IN  IF m.ok THEN m ELSE Match(rx, line, p + 1)

\* csvish.split(/\r?\n/g)
RECURSIVE Split(_)
Split(text) ==
    LET at == {i \in 1..Len(text) : text[i] = "\n"}
    IN  IF at = {} THEN <<text>>
        ELSE LET i == CHOOSE j \in at : \A k \in at : j <= k
             IN  <<SubSeq(text, 1, i - 1)>> \o Split(SubSeq(text, i + 1, Len(text)))

\* parseAccountList(csvish, format): the accounts, or the throw of "Couldn't
\* match line"
parseAccountList(csvish, formatText) ==
    LET exp == Regexp(formatText)
        lines == SelectSeq(Split(csvish), LAMBDA l : l # <<>>)
        values == [i \in 1..Len(lines) |-> Match(exp, lines[i], 1)]
    IN  IF \E i \in 1..Len(lines) : ~values[i].ok
        THEN [threw |-> TRUE, accounts |-> <<>>]
        ELSE [threw |-> FALSE, accounts |-> [i \in 1..Len(lines) |-> values[i].groups]]

ParserFrame == UNCHANGED poolVars /\ UNCHANGED <<login, timeline, request>>

\* the serialisation of the records is parsed under the format
ParseSerialized ==
    /\ parser.pc = "input"
    /\ LET res == parseAccountList(Serialize(parser.records), FormatText(parser.fields))
       IN  parser' = [parser EXCEPT !.pc = IF res.threw THEN "threw" ELSE "returned",
                                    !.regexp = Regexp(FormatText(parser.fields)),
                                    !.accounts = res.accounts]
    /\ ParserFrame

\* any format and any list of records with one value per field of the
\* format; no value contains ":" or a line break
Parser_Init ==
    /\ NoPool
    /\ login = Idle /\ timeline = Idle /\ request = Idle
    /\ \E fields \in Formats :
         \E records \in UNION {[1..n -> [1..Len(fields) -> FieldValues]] : n \in 0..MaxRecords} :
            parser = [pc |-> "input", fields |-> fields, records |-> records,
                      regexp |-> <<>>, accounts |-> <<>>]

Parser_Next == ParseSerialized

Parser_Spec == Parser_Init /\ [][Parser_Next]_vars

\* the record as the format names it: the value of each named field
Named(fields, record) ==
    [name \in {fields[i] : i \in 1..Len(fields)} \ {"ANY"} |->
        record[CHOOSE i \in 1..Len(fields) : fields[i] = name]]

\* C28: parsing the ":"-joined serialisation of a list of records under a
\* ":"-separated format returns exactly those records, in order, restricted
\* to the fields the format names.
C28_ParseRoundTrip ==
    (parser.pc # "input" /\ Len(parser.fields) >= 2) =>
        /\ parser.pc = "returned"
        /\ parser.accounts =
             [i \in 1..Len(parser.records) |-> Named(parser.fields, parser.records[i])]

\* C29: in the regexp built from a format every named field is a capture
\* group of its own name, every ANY is an uncaptured .*, and the separators
\* are literals.
C29_FieldsCapturedUnderOwnName ==
    parser.pc # "input" =>
      parser.regexp =
        Join([i \in 1..Len(parser.fields) |->
                 IF parser.fields[i] = "ANY" THEN <<Star>>
                 ELSE <<Group(parser.fields[i])>>], 1, Lit(":"))


----------------------------------------------------------------------------
(* The data routes of the downstream API (src/src/apid): one request, and *)
(* what the middleware and the handler of its route do with it            *)

Tokens == {"t1", "t2"}

\* Authorization headers: none, one that does not start with "Bearer ",
\* and "Bearer " followed by a token
Headers ==
    {[scheme |-> "none", token |-> ""], [scheme |-> "Basic", token |-> ""]}
    \cup {[scheme |-> "Bearer", token |-> t] : t \in Tokens \cup {""}}

\* the GET routes of tweets.ts, users.ts, search.ts and community.ts
Routes ==
    {"/api/tweets/:id",
     "/api/users/:handle", "/api/users/:id_or_handle/tweets-and-replies",
     "/api/users/:id_or_handle/following", "/api/users/:id_or_handle/followers",
     "/api/users/:id_or_handle/all-tweets",
     "/api/search/people/:query", "/api/search/tweets/:query",
     "/api/communities/:id/members"}

\* the routes registered with the verifyToken middleware
WithVerifyToken == Routes \ {"/api/communities/:id/members"}

\* TokenManager.validateToken
validateToken(issued, value) == value \in issued

\* verifyToken: TRUE when it calls next()
verifyToken(issued, header) ==
    /\ header.scheme = "Bearer"
    /\ validateToken(issued, header.token)

RequestFrame == UNCHANGED poolVars /\ UNCHANGED <<login, timeline, parser>>

\* the router runs the middleware of the route, if it has one, and then
\* the handler
RequestRouted ==
    /\ request.pc = "received"
    /\ request' =
         IF request.route \in WithVerifyToken /\ ~verifyToken(request.issued, request.header)
         THEN [request EXCEPT !.pc = "done", !.status = 401]
         ELSE [request EXCEPT !.pc = "handler"]
    /\ RequestFrame

\* the handler calls the upstream with accountManager.createAuthInstance()
RequestUpstream ==
    /\ request.pc = "handler"
    /\ request' = [request EXCEPT !.pc = "upstream", !.upstream = @ + 1]
    /\ RequestFrame

\* the upstream call returned or threw, and the handler answers
RequestAnswered(status) ==
    /\ request.pc = "upstream"
    /\ status \in {200, 404, 500}
    /\ request' = [request EXCEPT !.pc = "done", !.status = status]
    /\ RequestFrame

Request_Init ==
    /\ NoPool
    /\ login = Idle /\ timeline = Idle /\ parser = Idle
    /\ \E route \in Routes, header \in Headers, issued \in SUBSET Tokens :
          request = [pc |-> "received", route |-> route, header |-> header,
                     issued |-> issued, status |-> NoStatus, upstream |-> 0]

Request_Next ==
    \/ RequestRouted
    \/ RequestUpstream
    \/ \E status \in {200, 404, 500} : RequestAnswered(status)

Request_Spec == Request_Init /\ [][Request_Next]_vars

\* C30: a request to a data route whose bearer token is missing or not in
\* the issued-token store causes no upstream request and is answered 401.
C30_Unauthorized401NoUpstream ==
    ~(request.header.scheme = "Bearer" /\ request.header.token \in request.issued) =>
        /\ request.upstream = 0
        /\ request.pc = "done" => request.status = 401


----------------------------------------------------------------------------
(* Further properties of the pool and of TwitterPoolAuth.fetch *)

\* C31: a fetch call makes at most max(active pool size, 1) turns of its
\* loop: its attempt number stays within 1..max(P, 1), every step of the
\* call either ends it, starts the next attempt, or moves on within the
\* attempt (from the dispatch to the request or to the 5 s wait), also when
\* every active session is rate-limited.
C31_FetchTerminates ==
    [][\A f \in Fetches :
         /\ fetch'[f].pc \in {"wait", "req", "sleep"} =>
               fetch'[f].attempt \in 1..Max(fetch'[f].activePoolSize, 1)
         /\ (InProgress(f) /\ fetch'[f] # fetch[f]) =>
               \/ fetch'[f].pc = "done"
               \/ /\ fetch'[f].pc = "wait"
                  /\ fetch[f].pc \in {"req", "sleep", "wait"}
                  /\ fetch'[f].attempt = fetch[f].attempt + 1
               \/ /\ fetch[f].pc = "wait"
                  /\ fetch'[f].pc \in {"req", "sleep"}
                  /\ fetch'[f].attempt = fetch[f].attempt]_vars

\* a call is in its last attempt and waits the 5 s because every active
\* session is rate-limited
C31_Witness ==
    \E f \in Fetches :
        /\ fetch[f].pc = "sleep"
        /\ fetch[f].attempt = fetch[f].maxRetries
        /\ ActiveSet # {}
        /\ \A o \in ActiveSet : RateLimitedNow(accounts, o, now)

\* C32: within one fetch call no username is used for more than one
\* upstream request: a request is issued only on a session whose username
\* the call has not used yet, the username is recorded with the request,
\* and no recorded username is forgotten while the call lasts.
C32_OneRequestPerUsername ==
    [][\A f \in Fetches :
         /\ (fetch[f].pc = "wait" /\ fetch'[f].pc = "req") =>
               LET u == accounts'[fetch'[f].acct].username
               IN  /\ u \notin fetch[f].triedUsernames
                   /\ fetch'[f].triedUsernames = fetch[f].triedUsernames \cup {u}
         /\ (InProgress(f) /\ fetch'[f].pc \in {"wait", "req", "sleep"}) =>
               /\ fetch[f].triedUsernames \subseteq fetch'[f].triedUsernames
               /\ fetch'[f].pc # "req" =>
                     fetch'[f].triedUsernames = fetch[f].triedUsernames]_vars

\* the last dispatch of a call handed out a session that the call had
\* already used, and the call ended without a request on it
C32_Witness ==
    \E f \in Fetches :
        /\ fetch[f].pc = "done"
        /\ fetch[f].outcome = "exhausted"
        /\ fetch[f].acct # 0
        /\ fetch[f].status = NoStatus

\* C33: when the upstream answers a request with a status that is not ok
\* and is none of 429, 401 and 403, the account of the session keeps all its
\* fields, the store and the active set stay as they are, no warm-up is
\* started, and the call goes on to its next attempt (or ends exhausted when
\* that was the last one).
C33_OtherStatusChangesNothing ==
    [][\A f \in Fetches :
         ( /\ fetch[f].pc = "req"
           /\ fetch'[f].pc # "req"
           /\ fetch'[f].status \in Statuses \ {200, 429, 401, 403} ) =>
             /\ accounts'[fetch[f].acct] = accounts[fetch[f].acct]
             /\ db' = db
             /\ disk' = disk
             /\ activeAccounts' = activeAccounts
             /\ initializationPromise' = initializationPromise
             /\ \/ /\ fetch'[f].pc = "wait"
                   /\ fetch'[f].attempt = fetch[f].attempt + 1
                \/ /\ fetch'[f].pc = "done"
                   /\ fetch'[f].outcome = "exhausted"
                   /\ fetch[f].attempt = fetch[f].maxRetries]_vars

\* a call got a 500 on one session and waits for the dispatch of the next
\* one, the session still active and its account not marked
C33_Witness ==
    \E f \in Fetches :
        /\ fetch[f].pc = "wait"
        /\ fetch[f].status = 500
        /\ fetch[f].acct \in ActiveSet
        /\ ~accounts[fetch[f].acct].failedLogin

\* the warm-up w takes up a candidate in this step
AttemptStarts(w) ==
    /\ w \in 1..Len(warm')
    /\ warm'[w].idx # 0
    /\ w \in 1..Len(warm) => warm'[w].idx # warm[w].idx

\* the candidates before the one that w takes up whose login has succeeded
\* (lastUsed is set by a successful login only, and by nothing else)
SucceededBefore(w) ==
    {i \in 1..(warm'[w].idx - 1) :
        accounts'[warm'[w].cands[i]].lastUsed # NoTime}

\* a warm-up takes up a candidate only if that account is not marked failed
C34_OnlyUnfailed ==
    \A w \in 1..MaxWarmups :
        AttemptStarts(w) => ~accounts'[warm'[w].cands[warm'[w].idx]].failedLogin

\* a warm-up starts with the unfailed accounts of the store in ascending
\* lastUsed order, the never-used ones first, and goes through them forwards
C34_Order ==
    \A w \in 1..MaxWarmups :
        /\ (w = Len(warm') /\ Len(warm') = Len(warm) + 1 /\ warm'[w].pc # "done") =>
              LET c == warm'[w].cands
              IN  /\ {c[i] : i \in 1..Len(c)} =
                        {db'[i] : i \in {k \in 1..Len(db') : ~accounts'[db'[k]].failedLogin}}
                  /\ \A i, k \in 1..Len(c) :
                        i < k =>
                          /\ c[i] # c[k]
                          /\ accounts'[c[k]].lastUsed = NoTime =>
                                accounts'[c[i]].lastUsed = NoTime
                          /\ accounts'[c[i]].lastUsed # NoTime =>
                                accounts'[c[i]].lastUsed <= accounts'[c[k]].lastUsed
        /\ (w \in 1..Len(warm) /\ warm[w].pc # "done" /\ warm'[w].pc # "done") =>
              /\ warm'[w].cands = warm[w].cands
              /\ warm'[w].idx >= warm[w].idx

\* a warm-up takes up a candidate only while the active set holds fewer
\* than poolSize sessions
C34_StopsAtPoolSize ==
    \A w \in 1..MaxWarmups :
        (AttemptStarts(w) /\ w \in 1..Len(warm)) => Len(activeAccounts') < poolSize

\* C34: a warm-up takes only accounts that are not marked failed, in ascending
\* lastUsed order with the never-used ones first, and stops when the active
\* set holds poolSize sessions, so that a candidate is taken up only if fewer
\* than poolSize candidates before it in that order have logged in.
C34_WarmupOrderAndStop ==
    [][/\ C34_OnlyUnfailed
       /\ C34_Order
       /\ C34_StopsAtPoolSize
       /\ \A w \in 1..MaxWarmups :
             AttemptStarts(w) => Cardinality(SucceededBefore(w)) < poolSize]_vars

----------------------------------------------------------------------------
(* Further properties of the listings, the login flow and the search *)

\* C35: the community-members listing called with until = N returns at most
\* N member objects, whatever the sizes of the upstream pages.
C35_MembersAtMostUntil ==
    timeline.pc = "done" => Len(timeline.results) <= timeline.until

\* C36: in every reachable state the active set holds at most one session
\* per username, also while two warm-ups overlap and both log in the same
\* candidate.
C36_OneSessionPerUsername ==
    \A i, j \in 1..Len(activeAccounts) :
        i # j => accounts[activeAccounts[i]].username #
                 accounts[activeAccounts[j]].username

\* C37: a dispatch fails with the pool-empty error only if the warm-up that
\* was started last has completed, and the active set is empty; it never
\* fails so while a newer warm-up is still in flight.
C37_PoolEmptyOnlyAfterLatestWarmup ==
    [][\A f \in Fetches :
         ( /\ fetch[f].pc = "wait"
           /\ fetch'[f].pc = "done"
           /\ fetch'[f].outcome = "poolEmpty" ) =>
             /\ ~InFlight(initializationPromise)
             /\ activeAccounts = <<>>]_vars

\* C38: in the two-factor handler an error answer other than "verification
\* code is invalid" ends the handler at once with a failed login, and a
\* further code is submitted only after an invalid-code answer.
C38_OtherErrorAbortsTwoFactor ==
    [][/\ ( /\ login.pc = "twofa"
            /\ Len(login'.trace) = Len(login.trace) + 1
            /\ executeFlowTask(login'.trace[Len(login'.trace)]).status = "error"
            /\ ~executeFlowTask(login'.trace[Len(login'.trace)]).invalid )
          => login'.pc = "failed"
       /\ (login.pc = "twofaWait" /\ login'.pc = "twofa")
          => login.trace[Len(login.trace)].kind = "invalid"]_vars

\* C39: getAllTweetsEver never yields two tweets with the same id, over all
\* its passes, although each pass after the first is answered again with the
\* tweet that bounds it.
C39_NoDuplicateIds ==
    \A i, j \in 1..Len(timeline.out) :
        i # j => timeline.out[i] # timeline.out[j]

\* the iteration has ended after yielding two tweets or more, its last
\* query bounded by the id of the tweet it yielded last
C39_Witness ==
    /\ timeline.pc = "done"
    /\ Len(timeline.out) >= 2
    /\ timeline.max_id = timeline.out[Len(timeline.out)]
    /\ timeline.max_id \in timeline.seen

----------------------------------------------------------------------------
(* getSearchTimeline of src/src/search.ts with the authenticator of the   *)
(* pool: one page of a search is requested from a store of one account    *)

\* `!v` for the value of the expression auth.isLoggedIn(): the boolean
\* false negates to true, a Promise object (settled or not) does not
Not(v) == v = "false"

\* getSearchTimeline is called: auth.isLoggedIn() runs up to the await in
\* ensureInitialized and returns its promise, which is tested as it is
SearchPage ==
    /\ ~Runnable
    /\ timeline.pc = "idle"
    /\ timeline' = [pc |-> IF Not("promise") THEN "notLoggedIn" ELSE "requestApi",
                    promise |-> initializationPromise,
                    isLoggedIn |-> "pending"]
    /\ UNCHANGED poolVars
    /\ UNCHANGED <<login, parser, request>>

\* the initialization awaited by isLoggedIn has settled: its promise
\* resolves to whether the pool has an active session
IsLoggedInSettles ==
    /\ timeline.pc \in {"requestApi", "notLoggedIn"}
    /\ timeline.isLoggedIn = "pending"
    /\ warm[timeline.promise].pc = "done"
    /\ timeline' = [timeline EXCEPT !.isLoggedIn =
                      IF Len(activeAccounts) > 0 THEN "true" ELSE "false"]
    /\ UNCHANGED poolVars
    /\ UNCHANGED <<login, parser, request>>

\* requestApi calls the fetch of the authenticator
SearchRequestApi(f) ==
    /\ timeline.pc = "requestApi"
    /\ FetchStart(f)

Search_Next ==
    \/ \E w \in 1..MaxWarmups, ok \in BOOLEAN : TokenLoginResult(w, ok)
    \/ \E w \in 1..MaxWarmups, res \in {"ok", "fail", "arkose"} : LoginResult(w, res)
    \/ \E w \in 1..MaxWarmups : ArkoseWaitDone(w)
    \/ SearchPage
    \/ IsLoggedInSettles
    \/ \E f \in Fetches : SearchRequestApi(f)
    \/ \E f \in Fetches : FetchDispatch(f)
    \/ \E f \in Fetches : FetchOk(f)
    \/ \E f \in Fetches, hdr \in HeaderValues \cup {NoHeader} : FetchRateLimited(f, hdr)
    \/ \E f \in Fetches, st \in Statuses : FetchAuthError(f, st)
    \/ \E f \in Fetches, st \in Statuses : FetchOtherStatus(f, st)
    \/ \E f \in Fetches : FetchNetworkError(f)
    \/ resetFailedLogins
    \/ Tick

Search_Spec == InitCalls /\ [][Search_Next]_vars

\* C40: when isLoggedIn() of the authenticator answers false (the pool has
\* no active session), the search page request is refused with the
\* not-logged-in error, and no fetch of the authenticator, hence no upstream
\* request, is made for it.
C40_RefusedWhenNotLoggedIn ==
    (timeline.pc # "idle" /\ timeline.isLoggedIn = "false") =>
        /\ timeline.pc = "notLoggedIn"
        /\ \A f \in Fetches : fetch[f].pc = "idle"

====
